---------------------------- MODULE Spec2Model ----------------------------
(***************************************************************************)
(* Ufugaji-BioID: the muzzle-print matcher.                                *)
(*                                                                         *)
(* Modelled here: of utils/imageProcessing.js calculateSimilarity,         *)
(* hammingDistance, areImagesDuplicate, calculatePerceptualHash,           *)
(* validateMuzzleImage with its analysers, toGrayscale, applyGaussianBlur, *)
(* applyCLAHE and extractFeatureVector; of utils/database.js getAllCattle, *)
(* initializeDB (with its await), addCattle and deleteCattle; the Matcher  *)
(* page (captureAndMatch, processAndMatch with its delayed callback,       *)
(* retakePhoto); and the Enroll page (handleChange, handleSubmit, the      *)
(* Clear button, the sample checkbox) fed by useForEnrollment of Muzzle    *)
(* Mapper.                                                                 *)
(*                                                                         *)
(* Numbers.  A feature-vector component c stands for c / MaxComp, so the   *)
(* components lie in [0,1].  Percentages are held in tenths of a percent   *)
(* (1000 = 100%), computed in exact arithmetic and rounded down; the       *)
(* rounding error of IEEE doubles (about 1e-14) is not represented.        *)
(* Validator confidences are held in hundredths.                           *)
(*                                                                         *)
(* A value that may be null (or undefined) is a sequence of length at most *)
(* one: << >> is null and <<x>> is x.  A perceptual hash is the sequence   *)
(* of its hexadecimal digits, and << >> is the absent (falsy) hash.        *)
(*                                                                         *)
(* On the Matcher page an image is represented by what the pure pipeline   *)
(* derives from it: its validation result, its feature vector and its      *)
(* perceptual hash.  The image functions themselves are modelled on gray   *)
(* images given pixel by pixel (R = G = B, alpha 255): a record of width,  *)
(* height and data, with data[y * width + x + 1] the level of pixel (x, y).*)
(* Their scores are held in thousandths (Unit) and rounded down, and NaN   *)
(* stands for the result of 0 / 0.                                         *)
(*                                                                         *)
(* On the Enroll page the value of a dropdown is its index in the list of  *)
(* options, 0 being the empty 'Select ...' option.  Date.now() is a clock  *)
(* reading, and a certificate id is represented by its serial number.      *)
(***************************************************************************)
EXTENDS Integers, Sequences, FiniteSets, TLC

VARIABLES
    db,             \* localStorage[STORAGE_KEY]: the enrolled collection
    canvas,         \* what is drawn on the hidden <canvas> (canvasRef)
    capturedImage,  \* Matcher state: the captured image, or null
    isProcessing,   \* Matcher state
    error,          \* Matcher state: "null" or a message
    matchResults,   \* Matcher state: null or the published results
    validation,     \* Matcher state: null or the validation result
    timers,         \* number of setTimeout callbacks not yet run
    vector1,        \* calculateSimilarity: first argument
    vector2,        \* calculateSimilarity: second argument
    simOut,         \* calculateSimilarity: null or the returned value
    photo1,         \* fingerprinting: the first image, or null
    photo2,         \* fingerprinting: the second image, or null
    print1,         \* fingerprinting: null or the first fingerprint
    print2,         \* fingerprinting: null or the second fingerprint
    compared,       \* areImagesDuplicate: null or the returned value
    frame,          \* image functions: the image they are applied to
    returned,       \* image functions: null or what the function returned
    keySet,         \* localStorage: whether STORAGE_KEY holds an item
    initPc,         \* initializeDB: where the asynchronous call stands
    now,            \* Date.now() of the latest call that read the clock
    session,        \* sessionStorage.pendingMuzzleData, or null
    formData,       \* Enroll state: the form
    pendingMuzzleData, \* Enroll state: the capture to enroll, or null
    useSample,      \* Enroll state: the "use sample data" checkbox
    isSubmitting,   \* Enroll state
    submitResult    \* Enroll state: null or the outcome shown

vars == <<db, canvas, capturedImage, isProcessing, error, matchResults,
          validation, timers, vector1, vector2, simOut,
          photo1, photo2, print1, print2, compared, frame, returned,
          keySet, initPc, now, session, formData, pendingMuzzleData,
          useSample, isSubmitting, submitResult>>

matcherVars == <<db, canvas, capturedImage, isProcessing, error,
                 matchResults, validation, timers>>

simVars == <<vector1, vector2, simOut>>

hashVars == <<photo1, photo2, print1, print2, compared>>

imageVars == <<frame, returned>>

\* The Matcher page without the storage it reads.
pageVars == <<canvas, capturedImage, isProcessing, error, matchResults,
              validation, timers>>

storeVars == <<keySet, initPc, now>>

enrollVars == <<session, formData, pendingMuzzleData, useSample,
                isSubmitting, submitResult>>

-----------------------------------------------------------------------------
(* Bounds *)

MaxComp == 2     \* calculateSimilarity inputs: a component is c / MaxComp
MaxLen == 2      \* calculateSimilarity inputs: longest vector
MaxFeature == 2  \* images and records: a feature is c / MaxFeature
MaxDb == 2       \* largest enrolled collection
BioDen == 10     \* a bio-data component is c / BioDen
PhotoSide == 8   \* fingerprinted images are PhotoSide x PhotoSide
MinSide == 4     \* image functions: smallest width and height
MaxSide == 6     \* image functions: largest width and height
MaxClock == 3    \* latest reading of Date.now()
MaxLiveDb == 1   \* largest collection where termination is checked
MaxEnrolled == 2 \* largest collection the Enroll page builds

-----------------------------------------------------------------------------
(* Program constants *)

HashBits == 64                \* calculatePerceptualHash: 8 x 8 bits
HexDigits == HashBits \div 4  \* ... written as hexadecimal digits
LengthMismatch == 64          \* hammingDistance on unequal lengths
GridSize == 32                \* calculatePerceptualHash: const size
HashSide == 8                 \* calculatePerceptualHash: y < 8, x < 8
DefaultThreshold == 5         \* areImagesDuplicate: threshold = 5
SimilarityDivisor == 64       \* areImagesDuplicate: distance / 64
DuplicateThreshold == 150     \* isExactDuplicate = hashMatch <= 150
HashDivisor == 4096           \* duplicateScore = 100 - hashMatch / 4096 * 100
DuplicatePercent == 999       \* 99.9
HighConfidence == 60          \* validationResult.confidence >= 0.60
ValidThreshold == 45          \* finalScore >= 0.45
BioLen == 5                   \* for (let i = 0; i < 5; i++)
EnrollThreshold == 150        \* handleSubmit: distance <= 150
BreedCount == 21              \* BREEDS.length
LocationCount == 51           \* LOCATIONS.length
AgeCount == 16                \* AGES.length
SexCount == 8                 \* SEXES.length
ColorCount == 20              \* COLORS.length

-----------------------------------------------------------------------------
(* Arithmetic helpers *)

Min(a, b) == IF a < b THEN a ELSE b

Max(a, b) == IF a > b THEN a ELSE b

\* floor(sqrt(n)) by bisection; the answer lies in lo..hi.
RECURSIVE ISqrtIn(_, _, _)
ISqrtIn(n, lo, hi) ==
    IF lo >= hi THEN lo
    ELSE LET mid == (lo + hi + 1) \div 2
         IN  IF mid * mid <= n THEN ISqrtIn(n, mid, hi)
                               ELSE ISqrtIn(n, lo, mid - 1)

\* floor(sqrt(n)); squares stay below 2^31.
ISqrt(n) == ISqrtIn(n, 0, Min(n, 46340))

\* ceil(sqrt(p / q)) for p >= 0 and q >= 1, given floor(p / q) and whether
\* q divides p.
CeilSqrt(quotient, exact) ==
    LET ceiling == IF exact THEN quotient ELSE quotient + 1
    IN  IF ceiling = 0 THEN 0 ELSE ISqrt(ceiling - 1) + 1

\* floor(a * m / d) for a >= 0, m >= 0 and d >= 1, without forming a * m.
MulDiv(a, m, d) == (a \div d) * m + ((a % d) * m) \div d

\* The sum of the first n values of f.
RECURSIVE SumTo(_, _)
SumTo(f, n) == IF n = 0 THEN 0 ELSE SumTo(f, n - 1) + f[n]

Abs(a) == IF a < 0 THEN -a ELSE a

\* Sum of f[i] over the index set S.
RECURSIVE SumOver(_, _)
SumOver(f, S) ==
    IF S = {} THEN 0
    ELSE LET i == CHOOSE j \in S : TRUE
         IN  f[i] + SumOver(f, S \ {i})

\* floor(x / sqrt(n)) for x >= 0 and n >= 1:
\* the largest k with k * k * n <= x * x.
FloorDivSqrt(x, n) == ISqrtIn((x * x) \div n, 0, x)

-----------------------------------------------------------------------------
(* utils/imageProcessing.js: calculateSimilarity *)

\* The loop of calculateSimilarity: sum of a[k] * b[k] over the first i
\* indices.
RECURSIVE LoopSum(_, _, _)
LoopSum(a, b, i) ==
    IF i = 0 THEN 0 ELSE LoopSum(a, b, i - 1) + a[i] * b[i]

\* Math.max(0, Math.min(100, x)), in tenths of a percent.
ClampPercent(x) == Max(0, Min(1000, x))

calculateSimilarityZeroAsEqual(v1, v2) ==
    IF Len(v1) # Len(v2) THEN 0
    ELSE LET dotProduct == LoopSum(v1, v2, Len(v1))
             norm1 == LoopSum(v1, v1, Len(v1))
             norm2 == LoopSum(v2, v2, Len(v1))
         IN  IF norm1 = 0 /\ norm2 = 0 THEN 1000
             ELSE IF norm1 = 0 \/ norm2 = 0 THEN 0
             ELSE ClampPercent(FloorDivSqrt(1000 * dotProduct, norm1 * norm2))

calculateSimilarityOneNorm(v1, v2) ==
    IF Len(v1) # Len(v2) THEN 0
    ELSE LET dotProduct == LoopSum(v1, v2, Len(v1))
             norm1 == LoopSum(v1, v1, Len(v1))
         IN  IF norm1 = 0 THEN 0
             ELSE ClampPercent(FloorDivSqrt(1000 * dotProduct, norm1 * norm1))

calculateSimilarityNoSqrt(v1, v2) ==
    IF Len(v1) # Len(v2) THEN 0
    ELSE LET dotProduct == LoopSum(v1, v2, Len(v1))
             norm1 == LoopSum(v1, v1, Len(v1))
             norm2 == LoopSum(v2, v2, Len(v1))
         IN  IF norm1 = 0 \/ norm2 = 0 THEN 0
             ELSE ClampPercent((1000 * dotProduct) \div (norm1 * norm2))

calculateSimilarity(v1, v2) ==
    IF Len(v1) # Len(v2) THEN 0
    ELSE LET dotProduct == LoopSum(v1, v2, Len(v1))
             norm1 == LoopSum(v1, v1, Len(v1))
             norm2 == LoopSum(v2, v2, Len(v1))
         IN  IF norm1 = 0 \/ norm2 = 0 THEN 0
             ELSE ClampPercent(FloorDivSqrt(1000 * dotProduct, norm1 * norm2))

-----------------------------------------------------------------------------
(* calculateSimilarity applied to bounded inputs *)

\* Every vector of length 0 .. MaxLen with components in [0,1].
SimVectors == UNION {[1..n -> 0..MaxComp] : n \in 0..MaxLen}

MatcherIdle ==
    /\ db = << >>
    /\ canvas = << >>
    /\ capturedImage = << >>
    /\ isProcessing = FALSE
    /\ error = "null"
    /\ matchResults = << >>
    /\ validation = << >>
    /\ timers = 0

\* The Matcher page showing nothing.
PageIdle ==
    /\ canvas = << >>
    /\ capturedImage = << >>
    /\ isProcessing = FALSE
    /\ error = "null"
    /\ matchResults = << >>
    /\ validation = << >>
    /\ timers = 0

SimIdle ==
    /\ vector1 = << >>
    /\ vector2 = << >>
    /\ simOut = << >>

HashIdle ==
    /\ photo1 = << >>
    /\ photo2 = << >>
    /\ print1 = << >>
    /\ print2 = << >>
    /\ compared = << >>

ImageIdle ==
    /\ frame = << >>
    /\ returned = << >>

\* Storage initialised, the clock not yet read.
StoreIdle ==
    /\ keySet = TRUE
    /\ initPc = "done"
    /\ now = 0

\* useState of Enroll: the form as the page first shows it.  The value of
\* a dropdown is held as its index in the list of options; index 0 is the
\* 'Select ...' entry.
EmptyForm ==
    [cowName |-> "",
     ownerName |-> "",
     breed |-> 0,
     age |-> 0,
     location |-> 0,
     sex |-> 0,
     color |-> 0,
     notes |-> ""]

EnrollIdle ==
    /\ session = << >>
    /\ formData = EmptyForm
    /\ pendingMuzzleData = << >>
    /\ useSample = FALSE
    /\ isSubmitting = FALSE
    /\ submitResult = << >>

InitSim ==
    /\ MatcherIdle
    /\ HashIdle
    /\ ImageIdle
    /\ StoreIdle
    /\ EnrollIdle
    /\ vector1 \in SimVectors
    /\ vector2 \in SimVectors
    /\ simOut = << >>

CallSimilarity ==
    /\ simOut = << >>
    /\ simOut' = <<calculateSimilarity(vector1, vector2)>>
    /\ UNCHANGED <<vector1, vector2>>
    /\ UNCHANGED <<matcherVars, hashVars, imageVars, storeVars, enrollVars>>

NextSim == CallSimilarity

SpecSim == InitSim /\ [][NextSim]_vars

-----------------------------------------------------------------------------
(* utils/imageProcessing.js: hammingDistance *)

\* The loop of hammingDistance: positions among the first i where the two
\* hashes differ.
RECURSIVE CountDiffering(_, _, _)
CountDiffering(hash1, hash2, i) ==
    IF i = 0 THEN 0
    ELSE CountDiffering(hash1, hash2, i - 1)
           + (IF hash1[i] # hash2[i] THEN 1 ELSE 0)

hammingDistanceCommonPrefix(hash1, hash2) ==
    CountDiffering(hash1, hash2, Min(Len(hash1), Len(hash2)))

hammingDistance(hash1, hash2) ==
    IF Len(hash1) # Len(hash2) THEN LengthMismatch
    ELSE CountDiffering(hash1, hash2, Len(hash1))

\* areImagesDuplicate; similarity in tenths of a percent.
areImagesDuplicate(hash1, hash2, threshold) ==
    LET distance == hammingDistance(hash1, hash2)
    IN  [isDuplicate |-> distance <= threshold,
         distance |-> distance,
         similarity |-> (1000 * (SimilarityDivisor - distance))
                            \div SimilarityDivisor]

-----------------------------------------------------------------------------
(* Images.  The images of the model are gray (R = G = B, alpha 255): a     *)
(* pixel is its gray level 0 .. 255, which is also its luminance           *)
(* 0.299 R + 0.587 G + 0.114 B.  The pixel (x, y) of the source, at        *)
(* data[(y * width + x) * 4], is data[y * width + x + 1] here.             *)

Gray(imageData, x, y) == imageData.data[y * imageData.width + x + 1]

\* The width x height image whose pixel (x, y) has gray level P[<<x, y>>].
MakeImage(width, height, P) ==
    [width |-> width,
     height |-> height,
     data |-> [i \in 1..(width * height) |->
                  P[<<(i - 1) % width, (i - 1) \div width>>]]]

\* The pixel positions of a width x height image.
Positions(width, height) == (0..(width - 1)) \X (0..(height - 1))

-----------------------------------------------------------------------------
(* utils/imageProcessing.js: calculatePerceptualHash *)

\* resized[y * size + x]
Resized(imageData, x, y) ==
    Gray(imageData, (x * imageData.width) \div GridSize,
                    (y * imageData.height) \div GridSize)

\* The sum of the first n cells of row y of resized.
RECURSIVE RowSum(_, _, _)
RowSum(imageData, y, n) ==
    IF n = 0 THEN 0
    ELSE RowSum(imageData, y, n - 1) + Resized(imageData, n - 1, y)

\* The sum of the first n rows of resized; overallAvg, the mean of the row
\* means, is GridSum(imageData, size) / size^2.
RECURSIVE GridSum(_, _)
GridSum(imageData, n) ==
    IF n = 0 THEN 0
    ELSE GridSum(imageData, n - 1) + RowSum(imageData, n - 1, GridSize)

\* resized[idx] > overallAvg
AboveAverage(imageData, x, y, gridSum) ==
    Resized(imageData, x, y) * GridSize * GridSize > gridSum

\* The string hash: one character per cell of the HashSide x HashSide
\* corner, row by row.
BinaryHash(imageData) ==
    LET gridSum == GridSum(imageData, GridSize)
    IN  [k \in 1..(HashSide * HashSide) |->
            IF AboveAverage(imageData, (k - 1) % HashSide,
                            (k - 1) \div HashSide, gridSum)
            THEN 1 ELSE 0]

\* parseInt(binary, 2).toString(16) of the 4-character groups of hash.
HexOf(hash) ==
    [d \in 1..(Len(hash) \div 4) |->
        8 * hash[4 * d - 3] + 4 * hash[4 * d - 2]
            + 2 * hash[4 * d - 1] + hash[4 * d]]

calculatePerceptualHash(imageData) == HexOf(BinaryHash(imageData))

-----------------------------------------------------------------------------
(* Fingerprinting two images and comparing the fingerprints *)

Dark == 0
Bright == 255

\* The part of a PhotoSide x PhotoSide image that the hashed corner of the
\* grid is sampled from.
CornerSide == ((HashSide - 1) * PhotoSide) \div GridSize + 1

CornerCells == (0..(CornerSide - 1)) \X (0..(CornerSide - 1))

\* The photos: every dark/bright pattern in the sampled corner, on a dark
\* or a bright remainder.
HashPhotos ==
    {MakeImage(PhotoSide, PhotoSide,
               [c \in Positions(PhotoSide, PhotoSide) |->
                   IF c \in CornerCells
                   THEN (IF c \in lit THEN Bright ELSE Dark)
                   ELSE rest]) :
        lit \in SUBSET CornerCells, rest \in {Dark, Bright}}

\* Fingerprints read from stored records: a full-length one, and one of
\* another length.
StoredPrints == {[i \in 1..n |-> 0] : n \in {HexDigits, HexDigits - 1}}

InitHash ==
    /\ MatcherIdle
    /\ SimIdle
    /\ ImageIdle
    /\ StoreIdle
    /\ EnrollIdle
    /\ \/ photo1 \in {<<p>> : p \in HashPhotos} /\ print1 = << >>
       \/ photo1 = << >> /\ print1 \in {<<h>> : h \in StoredPrints}
    /\ \/ photo2 \in {<<p>> : p \in HashPhotos} /\ print2 = << >>
       \/ photo2 = << >> /\ print2 \in {<<h>> : h \in StoredPrints}
    /\ compared = << >>

FingerprintFirst ==
    /\ photo1 # << >>
    /\ print1 = << >>
    /\ print1' = <<calculatePerceptualHash(photo1[1])>>
    /\ UNCHANGED <<photo1, photo2, print2, compared>>
    /\ UNCHANGED <<matcherVars, simVars, imageVars, storeVars, enrollVars>>

FingerprintSecond ==
    /\ photo2 # << >>
    /\ print2 = << >>
    /\ print2' = <<calculatePerceptualHash(photo2[1])>>
    /\ UNCHANGED <<photo1, photo2, print1, compared>>
    /\ UNCHANGED <<matcherVars, simVars, imageVars, storeVars, enrollVars>>

CompareFingerprints ==
    /\ print1 # << >>
    /\ print2 # << >>
    /\ compared = << >>
    /\ compared' = <<areImagesDuplicate(print1[1], print2[1],
                                        DefaultThreshold)>>
    /\ UNCHANGED <<photo1, photo2, print1, print2>>
    /\ UNCHANGED <<matcherVars, simVars, imageVars, storeVars, enrollVars>>

NextHash ==
    \/ FingerprintFirst
    \/ FingerprintSecond
    \/ CompareFingerprints

SpecHash == InitHash /\ [][NextHash]_vars

-----------------------------------------------------------------------------
(* utils/imageProcessing.js: validateMuzzleImage and its checks.  A score  *)
(* s in [0,1] is held as floor(Unit * s); NaN, the value of 0 / 0, is held *)
(* as the negative number NaN, no score being negative.                    *)

Unit == 1000

NaN == -1

\* The column and the row of the pixel at data[i].
XOf(imageData, i) == (i - 1) % imageData.width

YOf(imageData, i) == (i - 1) \div imageData.width

PixelCount(imageData) == imageData.width * imageData.height

\* The array neighbors of analyzeMuzzleTexture.
Neighbors(imageData, x, y) ==
    <<Gray(imageData, x - 1, y - 1), Gray(imageData, x, y - 1),
      Gray(imageData, x + 1, y - 1), Gray(imageData, x + 1, y),
      Gray(imageData, x + 1, y + 1), Gray(imageData, x, y + 1),
      Gray(imageData, x - 1, y + 1), Gray(imageData, x - 1, y)>>

\* lbp |= (1 << i) for every neighbor at or above the center.
Lbp(neighbors, center) ==
    SumTo([i \in 1..8 |-> IF neighbors[i] >= center THEN 2 ^ (i - 1) ELSE 0],
          8)

\* pattern.includes('010') || pattern.includes('101')
RidgePattern(neighbors, center) ==
    LET pattern == [i \in 1..8 |-> IF neighbors[i] > center THEN 1 ELSE 0]
    IN  \E i \in 1..6 : /\ pattern[i] = pattern[i + 2]
                        /\ pattern[i] # pattern[i + 1]

analyzeMuzzleTexture(imageData) ==
    LET width == imageData.width
        height == imageData.height
        valid == (2..(width - 3)) \X (2..(height - 3))
        counted ==
            {c \in valid :
                LET lbp == Lbp(Neighbors(imageData, c[1], c[2]),
                               Gray(imageData, c[1], c[2]))
                IN  lbp > 30 /\ lbp < 220}
        ridge ==
            {c \in counted :
                RidgePattern(Neighbors(imageData, c[1], c[2]),
                             Gray(imageData, c[1], c[2]))}
        lbpScore == Cardinality(counted)
        validPixels == Cardinality(valid)
        ridgePatternCount == Cardinality(ridge)
    IN  IF validPixels = 0 THEN NaN
        ELSE Min(Unit,
                 (Unit * lbpScore
                    + Min(3 * (Unit \div 10) * validPixels,
                          2 * Unit * ridgePatternCount)) \div validPixels)

analyzeBilateralSymmetry(imageData) ==
    LET width == imageData.width
        height == imageData.height
        midX == width \div 2
        comparisons == midX * height
        diffs ==
            SumTo([i \in 1..PixelCount(imageData) |->
                      LET x == XOf(imageData, i)
                          y == YOf(imageData, i)
                      IN  IF x < midX
                          THEN Abs(Gray(imageData, x, y)
                                     - Gray(imageData, width - 1 - x, y))
                          ELSE 0],
                  PixelCount(imageData))
    IN  IF comparisons = 0 THEN NaN
        ELSE (Unit * (255 * comparisons - diffs)) \div (255 * comparisons)

\* gx * gx + gy * gy of the Sobel kernels at (x, y).
SobelSquare(imageData, x, y) ==
    LET gx == (Gray(imageData, x + 1, y - 1) + 2 * Gray(imageData, x + 1, y)
                 + Gray(imageData, x + 1, y + 1))
              - (Gray(imageData, x - 1, y - 1) + 2 * Gray(imageData, x - 1, y)
                   + Gray(imageData, x - 1, y + 1))
        gy == (Gray(imageData, x - 1, y + 1) + 2 * Gray(imageData, x, y + 1)
                 + Gray(imageData, x + 1, y + 1))
              - (Gray(imageData, x - 1, y - 1) + 2 * Gray(imageData, x, y - 1)
                   + Gray(imageData, x + 1, y - 1))
    IN  gx * gx + gy * gy

analyzeMuzzleEdgeDensity(imageData) ==
    LET interior == (1..(imageData.width - 2)) \X (1..(imageData.height - 2))
        edges == {c \in interior :
                     LET square == SobelSquare(imageData, c[1], c[2])
                     IN  square > 25 * 25 /\ square < 120 * 120}
        edgeCount == Cardinality(edges)
        totalPixels == Cardinality(interior)
    IN  IF totalPixels = 0 THEN NaN
        ELSE IF 100 * edgeCount >= 15 * totalPixels
                /\ 100 * edgeCount <= 40 * totalPixels
        THEN Unit
        ELSE IF 100 * edgeCount < 15 * totalPixels
        THEN (Unit * 100 * edgeCount) \div (15 * totalPixels)
        ELSE Max(0, (Unit * (4 * totalPixels - 5 * edgeCount))
                        \div (2 * totalPixels))


\* The variance of the gray levels is VarianceNum / VarianceDen.
VarianceNum(imageData) ==
    LET totalPixels == PixelCount(imageData)
        sum == SumTo(imageData.data, totalPixels)
        squares == SumTo([i \in 1..totalPixels |->
                             imageData.data[i] * imageData.data[i]],
                         totalPixels)
    IN  totalPixels * squares - sum * sum

VarianceDen(imageData) == PixelCount(imageData) * PixelCount(imageData)

analyzeContrastDistribution(imageData) ==
    LET num == VarianceNum(imageData)
        den == VarianceDen(imageData)
    IN  IF num >= 40 * 40 * den /\ num <= 80 * 80 * den
        THEN Unit
        ELSE IF num < 40 * 40 * den
        THEN \* stdDev / 40
             ISqrt(MulDiv(num, (Unit * Unit) \div (40 * 40), den))
        ELSE \* 1 - (stdDev - 80) / 100
             Max(0, (180 * Unit) \div 100
                      - CeilSqrt(MulDiv(num, (Unit * Unit) \div (100 * 100),
                                        den),
                                 ((num % den) * ((Unit * Unit) \div (100 * 100)))
                                     % den = 0))

\* The pixels at distance d from (centerX, centerY) with
\* (r / ringCount) * maxRadius <= d < ((r + 1) / ringCount) * maxRadius.
Ring(imageData, r, ringCount) ==
    LET centerX == imageData.width \div 2
        centerY == imageData.height \div 2
        maxRadius == Min(centerX, centerY)
    IN  {i \in 1..PixelCount(imageData) :
            LET dx == XOf(imageData, i) - centerX
                dy == YOf(imageData, i) - centerY
                square == ringCount * ringCount * (dx * dx + dy * dy)
            IN  /\ square >= r * r * maxRadius * maxRadius
                /\ square < (r + 1) * (r + 1) * maxRadius * maxRadius}

\* The sum of the gray levels of a set of pixels.
RingSum(imageData, ring) ==
    SumTo([i \in 1..PixelCount(imageData) |->
              IF i \in ring THEN imageData.data[i] ELSE 0],
          PixelCount(imageData))

\* ringMeans, in tenths of a gray level.
RingMean(imageData, r, ringCount) ==
    LET ring == Ring(imageData, r, ringCount)
    IN  IF ring = {} THEN 0
        ELSE (10 * RingSum(imageData, ring)) \div Cardinality(ring)

analyzeRadialPattern(imageData) ==
    LET ringCount == 8
        ringMeans == [r \in 1..ringCount |->
                         RingMean(imageData, r - 1, ringCount)]
        sum == SumTo(ringMeans, ringCount)
        squares == SumTo([r \in 1..ringCount |-> ringMeans[r] * ringMeans[r]],
                         ringCount)
        \* variance = spread / (ringCount^2 * 10^2)
        spread == ringCount * squares - sum * sum
    IN  \* sqrt(variance) / 255 * 3, where
        \* 3 * Unit / (ringCount * 10 * 255) = 5 / 34
        Min(Unit, ISqrt(MulDiv(spread, 5 * 5, 34 * 34)))

analyzeNaturalColors(imageData) ==
    LET totalPixels == Min(10000, PixelCount(imageData))
        naturalPixels ==
            Cardinality({i \in 1..totalPixels :
                            imageData.data[i] > 30 /\ imageData.data[i] < 230})
    IN  (Unit * naturalPixels) \div totalPixels

detectHumanFaceCharacteristics(imageData) ==
    LET width == imageData.width
        height == imageData.height
        upperThird == height \div 3
        darkSpotsUpper ==
            Cardinality({i \in 1..PixelCount(imageData) :
                            /\ imageData.data[i] < 50
                            /\ YOf(imageData, i) < upperThird})
        hasEyesLikePattern == 100 * darkSpotsUpper > 2 * width * upperThird
        horizontalLineCount ==
            Cardinality({y \in ((2 * height) \div 3)..(height - 1) :
                10 * Cardinality({x \in 0..(width - 1) :
                                     Gray(imageData, x, y) < 60})
                    > 3 * width})
        hasMouthLikePattern == horizontalLineCount > 3
    IN  hasEyesLikePattern /\ hasMouthLikePattern

\* One line of detectNonBiologicalObject: the runs of similar neighbours
\* among the first n pairs of the line that were ended by a dissimilar pair
\* after more than 0.8 * length similar ones.  The value is
\* <<consecutiveSimilar, lines counted>>.
RECURSIVE StraightRuns(_, _, _)
StraightRuns(line, length, n) ==
    IF n = 0 THEN <<0, 0>>
    ELSE LET before == StraightRuns(line, length, n - 1)
         IN  IF Abs(line[n] - line[n + 1]) < 5
             THEN <<before[1] + 1, before[2]>>
             ELSE <<0, before[2] + (IF 10 * before[1] > 8 * length
                                    THEN 1 ELSE 0)>>

detectNonBiologicalObject(imageData) ==
    LET width == imageData.width
        height == imageData.height
        row(y) == [x \in 1..width |-> Gray(imageData, x - 1, y)]
        column(x) == [y \in 1..height |-> Gray(imageData, x, y - 1)]
        horizontal ==
            SumTo([y \in 1..height |->
                      StraightRuns(row(y - 1), width, width - 1)[2]], height)
        vertical ==
            SumTo([x \in 1..width |->
                      StraightRuns(column(x - 1), height, height - 1)[2]],
                  width)
        straightLineCount == horizontal + vertical
    IN  straightLineCount > 10

\* aspectRatioScore of validateMuzzleImage.
AspectRatioScore(width, height) ==
    IF 10 * width >= 7 * height /\ 10 * width <= 15 * height
    THEN Unit
    ELSE Max(0, (Unit * (20 * height - Abs(10 * width - 11 * height)))
                    \div (20 * height))

\* Confidences are held in hundredths, rounded down.
validateMuzzleImage(imageData) ==
    LET aspectRatioScore == AspectRatioScore(imageData.width, imageData.height)
        textureScore == analyzeMuzzleTexture(imageData)
        symmetryScore == analyzeBilateralSymmetry(imageData)
        edgeScore == analyzeMuzzleEdgeDensity(imageData)
        contrastScore == analyzeContrastDistribution(imageData)
        radialScore == analyzeRadialPattern(imageData)
        colorScore == analyzeNaturalColors(imageData)
        isNaN == NaN \in {textureScore, symmetryScore, edgeScore}
        \* in hundredths of 1 / Unit
        overallScore ==
            textureScore * 25 + symmetryScore * 15 + edgeScore * 20
                + contrastScore * 15 + radialScore * 15
                + aspectRatioScore * 5 + colorScore * 5
        isProbablyFace == detectHumanFaceCharacteristics(imageData)
        isProbablyObject == detectNonBiologicalObject(imageData)
        afterFace ==
            IF isProbablyFace THEN (overallScore * 3) \div 10 ELSE overallScore
        finalScore ==
            IF isProbablyObject THEN (afterFace * 4) \div 10 ELSE afterFace
        isValid == /\ ~isNaN
                   /\ finalScore >= ValidThreshold * Unit
                   /\ ~isProbablyFace
                   /\ ~isProbablyObject
    IN  [isValid |-> isValid,
         confidence |-> IF isNaN THEN NaN ELSE finalScore \div Unit,
         scores |-> [texture |-> textureScore,
                     symmetry |-> symmetryScore,
                     edge |-> edgeScore,
                     contrast |-> contrastScore,
                     radial |-> radialScore,
                     aspect |-> aspectRatioScore,
                     color |-> colorScore],
         flags |-> [isProbablyFace |-> isProbablyFace,
                    isProbablyObject |-> isProbablyObject]]

-----------------------------------------------------------------------------
(* utils/imageProcessing.js: toGrayscale, applyGaussianBlur, applyCLAHE    *)

\* What a Uint8ClampedArray stores for num / den (den > 0): the nearest
\* integer, a tie going to the even one, clamped to 0 .. 255.
ToUint8Clamped(num, den) ==
    LET floor == num \div den
        rest == 2 * (num % den)
        nearest == IF rest < den THEN floor
                   ELSE IF rest > den THEN floor + 1
                   ELSE IF floor % 2 = 0 THEN floor
                   ELSE floor + 1
    IN  Max(0, Min(255, nearest))

\* 0.299 r + 0.587 g + 0.114 b, as stored in a Uint8ClampedArray.
Luminance(r, g, b) == ToUint8Clamped(299 * r + 587 * g + 114 * b, 1000)

toGrayscale(imageData) ==
    [width |-> imageData.width,
     height |-> imageData.height,
     data |-> [i \in 1..PixelCount(imageData) |->
                  Luminance(imageData.data[i], imageData.data[i],
                            imageData.data[i])]]

\* The 3 x 3 kernel 1 2 1 / 2 4 2 / 1 2 1 around (x, y), the coordinates
\* clamped to the image.
BlurSum(imageData, x, y) ==
    LET px(kx) == Min(imageData.width - 1, Max(0, x + kx))
        py(ky) == Min(imageData.height - 1, Max(0, y + ky))
        at(kx, ky) == Gray(imageData, px(kx), py(ky))
    IN  at(-1, -1) + 2 * at(0, -1) + at(1, -1)
          + 2 * at(-1, 0) + 4 * at(0, 0) + 2 * at(1, 0)
          + at(-1, 1) + 2 * at(0, 1) + at(1, 1)

applyGaussianBlur(imageData) ==
    [width |-> imageData.width,
     height |-> imageData.height,
     data |-> [i \in 1..PixelCount(imageData) |->
                  ToUint8Clamped(BlurSum(imageData, XOf(imageData, i),
                                         YOf(imageData, i)), 16)]]

\* The pixels of tile (tx, ty).
TilePixels(imageData, tileSize, tx, ty) ==
    LET tileWidth == imageData.width \div tileSize
        tileHeight == imageData.height \div tileSize
    IN  {i \in 1..PixelCount(imageData) :
            /\ XOf(imageData, i) >= tx * tileWidth
            /\ XOf(imageData, i) < Min(tx * tileWidth + tileWidth,
                                       imageData.width)
            /\ YOf(imageData, i) >= ty * tileHeight
            /\ YOf(imageData, i) < Min(ty * tileHeight + tileHeight,
                                       imageData.height)}

\* histogram[v] of the tile, before clipping.
TileHistogram(imageData, tile, v) ==
    Cardinality({i \in tile : imageData.data[i] = v})

ClipLimitCount(clipLimit, pixelCount) == (clipLimit * pixelCount) \div 256

ClippedCdfUnclipped(imageData, tile, clipLimitCount, v) ==
    Cardinality({i \in tile : imageData.data[i] <= v})

\* cdf[v]: the clipped histogram summed up to v.  Only the levels that
\* occur in the tile have a bin above 0.
ClippedCdf(imageData, tile, clipLimitCount, v) ==
    LET levels == {imageData.data[i] : i \in tile}
        upTo == {u \in levels : u <= v}
    IN  SumOver([u \in upTo |->
                    Min(TileHistogram(imageData, tile, u), clipLimitCount)],
                upTo)

\* cdf.find(val => val > 0) || 0
CdfMin(imageData, tile, clipLimitCount) ==
    IF tile = {} \/ clipLimitCount = 0 THEN 0
    ELSE LET lowest == CHOOSE u \in {imageData.data[i] : i \in tile} :
                          \A i \in tile : u <= imageData.data[i]
         IN  Min(TileHistogram(imageData, tile, lowest), clipLimitCount)


\* The tile a pixel lies in, as <<tx, ty>>, or << >> for a pixel that the
\* tileSize x tileSize tiles do not reach.
TileOf(imageData, tileSize, i) ==
    LET tileWidth == imageData.width \div tileSize
        tileHeight == imageData.height \div tileSize
    IN  IF tileWidth = 0 \/ tileHeight = 0 THEN << >>
        ELSE LET tx == XOf(imageData, i) \div tileWidth
                 ty == YOf(imageData, i) \div tileHeight
             IN  IF tx < tileSize /\ ty < tileSize THEN <<tx, ty>>
                 ELSE << >>

\* result[idx] for a pixel of tile (tx, ty).
Equalized(imageData, clipLimit, tileSize, tx, ty, i) ==
    LET tile == TilePixels(imageData, tileSize, tx, ty)
        pixelCount == Cardinality(tile)
        clipLimitCount == ClipLimitCount(clipLimit, pixelCount)
        cdfMin == CdfMin(imageData, tile, clipLimitCount)
        cdf == ClippedCdf(imageData, tile, clipLimitCount, imageData.data[i])
    IN  IF pixelCount = cdfMin
        THEN \* scale is Infinity and (cdf - cdfMin) * scale is NaN, which
             \* the Uint8ClampedArray stores as 0
             0
        ELSE Max(0, Min(255, ((cdf - cdfMin) * 255)
                                 \div (pixelCount - cdfMin)))

\* A pixel that no tile reaches keeps the 0 the result array starts with.
applyCLAHE(imageData, clipLimit, tileSize) ==
    [width |-> imageData.width,
     height |-> imageData.height,
     data |-> [i \in 1..PixelCount(imageData) |->
                  LET tile == TileOf(imageData, tileSize, i)
                  IN  IF tile = << >> THEN 0
                      ELSE Equalized(imageData, clipLimit, tileSize,
                                     tile[1], tile[2], i)]]

\* result[idx + 3], the alpha of an output pixel: the input's alpha (255)
\* where a tile writes it, and the 0 the result array starts with elsewhere.
CLAHEAlpha(imageData, tileSize, i) ==
    IF TileOf(imageData, tileSize, i) = << >> THEN 0 ELSE 255

-----------------------------------------------------------------------------
(* utils/imageProcessing.js: extractFeatureVector.  A feature f is held as *)
(* floor(Unit * f), and NaN as NaN.                                        *)

\* The pixels with startX <= x < endX and startY <= y < endY.
Block(width, startX, endX, startY, endY) ==
    {y * width + x + 1 : x \in startX..(endX - 1), y \in startY..(endY - 1)}

\* The sum of the gray levels of a set of pixels.
BlockSum(imageData, block) ==
    SumTo([i \in 1..Len(imageData.data) |->
              IF i \in block THEN imageData.data[i] ELSE 0],
          Len(imageData.data))

\* sum / count / 255
MeanIntensity(imageData, block) ==
    IF block = {} THEN NaN
    ELSE (Unit * BlockSum(imageData, block)) \div (Cardinality(block) * 255)

\* edgeCount / totalPixels
EdgeDensity(imageData, width, block) ==
    LET edges == {i \in block :
                     \/ Abs(imageData.data[i] - imageData.data[i + 1]) > 25
                     \/ Abs(imageData.data[i] - imageData.data[i + width]) > 25}
    IN  IF block = {} THEN NaN
        ELSE (Unit * Cardinality(edges)) \div Cardinality(block)

\* Math.sqrt(varianceSum / count) / 255; the standard deviation is taken
\* in hundredths of a gray level.
TextureVariance(imageData, block) ==
    LET count == Cardinality(block)
        sum == BlockSum(imageData, block)
        squares == SumTo([i \in 1..Len(imageData.data) |->
                             IF i \in block
                             THEN imageData.data[i] * imageData.data[i]
                             ELSE 0],
                         Len(imageData.data))
        deviation == ISqrt(MulDiv(count * squares - sum * sum, 100 * 100,
                                  count * count))
    IN  IF block = {} THEN NaN
        ELSE (Unit * deviation) \div (100 * 255)

\* features.map(f => Math.max(0, Math.min(1, f))): NaN stays NaN.
Normalized(f) == IF f = NaN THEN NaN ELSE Max(0, Min(Unit, f))

extractFeatureVector(imageData, width, height) ==
    LET gridSize == 4
        cellWidth == width \div gridSize
        cellHeight == height \div gridSize
        cell(gx, gy) ==
            Block(width, gx * cellWidth,
                  Min(gx * cellWidth + cellWidth, width),
                  gy * cellHeight,
                  Min(gy * cellHeight + cellHeight, height))
        quadrantSize == 2
        quadWidth == width \div quadrantSize
        quadHeight == height \div quadrantSize
        inner(qx, qy) ==
            Block(width, qx * quadWidth + 1,
                  Min(qx * quadWidth + quadWidth, width - 1),
                  qy * quadHeight + 1,
                  Min(qy * quadHeight + quadHeight, height - 1))
        quadrant(qx, qy) ==
            Block(width, qx * quadWidth,
                  Min(qx * quadWidth + quadWidth, width),
                  qy * quadHeight,
                  Min(qy * quadHeight + quadHeight, height))
        image == [width |-> width, height |-> height, data |-> imageData.data]
        band(r) == Ring(image, r, 4)
        features ==
            [k \in 1..16 |->
                MeanIntensity(imageData,
                              cell((k - 1) % gridSize, (k - 1) \div gridSize))]
            \o [k \in 1..4 |->
                EdgeDensity(imageData, width,
                            inner((k - 1) % quadrantSize,
                                  (k - 1) \div quadrantSize))]
            \o [k \in 1..4 |->
                TextureVariance(imageData,
                                quadrant((k - 1) % quadrantSize,
                                         (k - 1) \div quadrantSize))]
            \o [k \in 1..4 |->
                IF band(k - 1) = {} THEN 0
                ELSE MeanIntensity(imageData, band(k - 1))]
    IN  [k \in DOMAIN features |-> Normalized(features[k])]

-----------------------------------------------------------------------------
(* The image functions applied to bounded images *)

\* The gray level of pixel (x, y) under pattern p: a base level plus a step
\* for each unit of (x * p.dx + y * p.dy) % p.period.  Period 1 is the
\* uniform image; dx = dy = 1 gives diagonal bands, dy = 0 vertical stripes.
PatternPixel(p, x, y) ==
    p.base + p.step * ((x * p.dx + y * p.dy) % p.period)

Patterns ==
    {[base |-> b, step |-> 0, period |-> 1, dx |-> 0, dy |-> 0] :
        b \in {0, 128, 255}}
    \cup [base : {100, 130}, step : {1, 60}, period : {2, 3},
          dx : {1}, dy : {0, 1}]

Sides == MinSide..MaxSide

TestImages ==
    {MakeImage(w, h, [c \in Positions(w, h) |-> PatternPixel(p, c[1], c[2])]) :
        w \in Sides, h \in Sides, p \in Patterns}


\* The arguments applyCLAHE is given besides the image.
ClipLimits == {2, 64, 128}

TileSizes == {1, 2, 8}

\* Lines 152-156 of processAndMatch.  toGrayscale, applyGaussianBlur and
\* applyCLAHE take the image as one object: of
\* applyCLAHE(processed, canvas.width, canvas.height, 2.0, 8) the second
\* argument arrives as clipLimit and the third as tileSize.
Preprocess(imageData) ==
    LET gray == toGrayscale(imageData)
        blurred == applyGaussianBlur(gray)
        clipLimit == imageData.width
        tileSize == imageData.height
        processed == applyCLAHE(blurred, clipLimit, tileSize)
    IN  [clipLimit |-> clipLimit,
         tileSize |-> tileSize,
         processed |-> processed,
         queryFeatures |-> extractFeatureVector(processed, imageData.width,
                                                imageData.height)]

InitImage ==
    /\ MatcherIdle
    /\ SimIdle
    /\ HashIdle
    /\ StoreIdle
    /\ EnrollIdle
    /\ frame \in TestImages
    /\ returned = << >>

CallValidate ==
    /\ returned = << >>
    /\ returned' = <<[fn |-> "validateMuzzleImage",
                      value |-> validateMuzzleImage(frame)]>>
    /\ UNCHANGED frame
    /\ UNCHANGED <<matcherVars, simVars, hashVars, storeVars, enrollVars>>

CallExtractFeatures ==
    /\ returned = << >>
    /\ returned' = <<[fn |-> "extractFeatureVector",
                      value |-> extractFeatureVector(frame, frame.width,
                                                     frame.height)]>>
    /\ UNCHANGED frame
    /\ UNCHANGED <<matcherVars, simVars, hashVars, storeVars, enrollVars>>

CallCLAHE(clipLimit, tileSize) ==
    /\ returned = << >>
    /\ returned' = <<[fn |-> "applyCLAHE",
                      clipLimit |-> clipLimit,
                      tileSize |-> tileSize,
                      value |-> applyCLAHE(frame, clipLimit, tileSize)]>>
    /\ UNCHANGED frame
    /\ UNCHANGED <<matcherVars, simVars, hashVars, storeVars, enrollVars>>

CallPreprocess ==
    /\ returned = << >>
    /\ returned' = <<[fn |-> "preprocess", value |-> Preprocess(frame)]>>
    /\ UNCHANGED frame
    /\ UNCHANGED <<matcherVars, simVars, hashVars, storeVars, enrollVars>>

NextImage ==
    \/ CallValidate
    \/ CallExtractFeatures
    \/ \E clipLimit \in ClipLimits, tileSize \in TileSizes :
          CallCLAHE(clipLimit, tileSize)
    \/ CallPreprocess

SpecImage == InitImage /\ [][NextImage]_vars

-----------------------------------------------------------------------------
(* Images and enrolled records *)

\* A hash as calculatePerceptualHash writes it: HexDigits digits, here all
\* equal to d (d = 0: no cell above the mean; d = 15: every cell above it).
UniformHash(d) == [i \in 1..HexDigits |-> d]

QueryHashes == {UniformHash(0), UniformHash(15)}

\* Feature vectors of images and records: the two-component vectors whose
\* components add up to 1.
FeatureVectors == {<<a, MaxFeature - a>> : a \in 0..MaxFeature}

\* validateMuzzleImage: confidence in hundredths, and the isValid gate.
ValidationResults ==
    {[confidence |-> c, isValid |-> c >= ValidThreshold] : c \in {30, 60}}

Images ==
    [validationResult : ValidationResults,
     queryFeatures : FeatureVectors,
     queryHash : QueryHashes]

\* Bio-data vectors as createBioDataVector builds them: BioLen scores.
BioVectors == {<<1, 2, 0, 5, 3>>}

\* What a stored record can hold besides its id.  The last one is a record
\* stored without a featureVector.
CattleData ==
    [featureVector : {<<v>> : v \in FeatureVectors},
     perceptualHash : {<< >>, UniformHash(0)},
     bioVector : {<< >>} \cup BioVectors]
    \cup {[featureVector |-> << >>,
           perceptualHash |-> << >>,
           bioVector |-> << >>]}

WithId(data, i) ==
    [id |-> i,
     featureVector |-> data.featureVector,
     perceptualHash |-> data.perceptualHash,
     bioVector |-> data.bioVector]

\* The collections localStorage can hold: up to MaxDb records, ids in
\* enrollment order.
Databases ==
    UNION {{[i \in 1..n |-> WithId(f[i], i)] : f \in [1..n -> CattleData]} :
           n \in 0..MaxDb}

\* utils/database.js
getAllCattle == db

-----------------------------------------------------------------------------
(* pages/Matcher.jsx: the scoring of one record and the ranking *)

\* bioSum of the loop over the first i components.
RECURSIVE BioSum(_, _)
BioSum(bioVector, i) ==
    IF i = 0 THEN 0 ELSE BioSum(bioVector, i - 1) + bioVector[i]

\* (bioSum / 5) * 100, in tenths of a percent.
BioDataMatch(bioVector) ==
    (BioSum(bioVector, BioLen) * 1000) \div (BioLen * BioDen)

\* Math.round((bioSum / 5) * 100), in whole percent.
RoundedBioDataMatch(bioVector) ==
    (2 * BioSum(bioVector, BioLen) * 100 + BioLen * BioDen)
        \div (2 * BioLen * BioDen)

\* 100 - (hashMatch / 4096 * 100), in tenths of a percent.
DuplicateScore(hashMatch) ==
    (1000 * (HashDivisor - hashMatch)) \div HashDivisor

\* The callback of cattle.map.
ScoreCattleBioFirst(validationResult, queryFeatures, queryHash, cattle) ==
    LET similarity == calculateSimilarity(queryFeatures, cattle.featureVector[1])
        hasHashes == cattle.perceptualHash # << >> /\ queryHash # << >>
        hashMatch == hammingDistance(queryHash, cattle.perceptualHash)
        isExactDuplicate == hasHashes /\ hashMatch <= DuplicateThreshold
        hasBioData == cattle.bioVector # << >>
        bioDataMatch == IF hasBioData THEN BioDataMatch(cattle.bioVector) ELSE 0
        adjustedSimilarity ==
            IF hasBioData THEN (similarity * 75 + bioDataMatch * 25) \div 100
            ELSE IF isExactDuplicate THEN DuplicatePercent
            ELSE IF validationResult.confidence >= HighConfidence
                 THEN Min(1000, (similarity * 105) \div 100)
            ELSE similarity
    IN  [id |-> cattle.id,
         featureVector |-> cattle.featureVector,
         perceptualHash |-> cattle.perceptualHash,
         bioVector |-> cattle.bioVector,
         matchPercentage |-> adjustedSimilarity,
         rawPercentage |-> similarity,
         bioDataMatch |-> IF hasBioData
                          THEN <<RoundedBioDataMatch(cattle.bioVector)>>
                          ELSE << >>,
         isExactDuplicate |-> isExactDuplicate,
         duplicateScore |-> IF hasHashes THEN DuplicateScore(hashMatch) ELSE 0]

ScoreCattleNoCap(validationResult, queryFeatures, queryHash, cattle) ==
    LET similarity == calculateSimilarity(queryFeatures, cattle.featureVector[1])
        hasHashes == cattle.perceptualHash # << >> /\ queryHash # << >>
        hashMatch == hammingDistance(queryHash, cattle.perceptualHash)
        isExactDuplicate == hasHashes /\ hashMatch <= DuplicateThreshold
        hasBioData == cattle.bioVector # << >>
        bioDataMatch == IF hasBioData THEN BioDataMatch(cattle.bioVector) ELSE 0
        adjustedSimilarity ==
            IF isExactDuplicate THEN DuplicatePercent
            ELSE IF hasBioData
                 THEN (similarity * 75 + bioDataMatch * 25) \div 100
            ELSE IF validationResult.confidence >= HighConfidence
                 THEN (similarity * 105) \div 100
            ELSE similarity
    IN  [id |-> cattle.id,
         featureVector |-> cattle.featureVector,
         perceptualHash |-> cattle.perceptualHash,
         bioVector |-> cattle.bioVector,
         matchPercentage |-> adjustedSimilarity,
         rawPercentage |-> similarity,
         bioDataMatch |-> IF hasBioData
                          THEN <<RoundedBioDataMatch(cattle.bioVector)>>
                          ELSE << >>,
         isExactDuplicate |-> isExactDuplicate,
         duplicateScore |-> IF hasHashes THEN DuplicateScore(hashMatch) ELSE 0]

ScoreCattle(validationResult, queryFeatures, queryHash, cattle) ==
    LET similarity == calculateSimilarity(queryFeatures, cattle.featureVector[1])
        hasHashes == cattle.perceptualHash # << >> /\ queryHash # << >>
        hashMatch == hammingDistance(queryHash, cattle.perceptualHash)
        isExactDuplicate == hasHashes /\ hashMatch <= DuplicateThreshold
        hasBioData == cattle.bioVector # << >>
        bioDataMatch == IF hasBioData THEN BioDataMatch(cattle.bioVector) ELSE 0
        adjustedSimilarity ==
            IF isExactDuplicate THEN DuplicatePercent
            ELSE IF hasBioData
                 THEN (similarity * 75 + bioDataMatch * 25) \div 100
            ELSE IF validationResult.confidence >= HighConfidence
                 THEN Min(1000, (similarity * 105) \div 100)
            ELSE similarity
    IN  [id |-> cattle.id,
         featureVector |-> cattle.featureVector,
         perceptualHash |-> cattle.perceptualHash,
         bioVector |-> cattle.bioVector,
         matchPercentage |-> adjustedSimilarity,
         rawPercentage |-> similarity,
         bioDataMatch |-> IF hasBioData
                          THEN <<RoundedBioDataMatch(cattle.bioVector)>>
                          ELSE << >>,
         isExactDuplicate |-> isExactDuplicate,
         duplicateScore |-> IF hasHashes THEN DuplicateScore(hashMatch) ELSE 0]

\* The comparator of results.sort: negative when a goes before b.
CompareMatches(a, b) == b.matchPercentage - a.matchPercentage

\* x put into the sorted list before the first entry it must precede.
RECURSIVE InsertMatch(_, _)
InsertMatch(sorted, x) ==
    IF sorted = << >> THEN <<x>>
    ELSE IF CompareMatches(x, Head(sorted)) < 0 THEN <<x>> \o sorted
    ELSE <<Head(sorted)>> \o InsertMatch(Tail(sorted), x)

RECURSIVE InsertMatchBeforeTies(_, _)
InsertMatchBeforeTies(sorted, x) ==
    IF sorted = << >> THEN <<x>>
    ELSE IF CompareMatches(x, Head(sorted)) <= 0 THEN <<x>> \o sorted
    ELSE <<Head(sorted)>> \o InsertMatchBeforeTies(Tail(sorted), x)

\* Array.prototype.sort with CompareMatches; the sort is stable.
RECURSIVE SortFirst(_, _)
SortFirst(results, n) ==
    IF n = 0 THEN << >>
    ELSE InsertMatch(SortFirst(results, n - 1), results[n])

RECURSIVE SortFirstUnstable(_, _)
SortFirstUnstable(results, n) ==
    IF n = 0 THEN << >>
    ELSE InsertMatchBeforeTies(SortFirstUnstable(results, n - 1), results[n])

RECURSIVE SortFirstDroppingTies(_, _)
SortFirstDroppingTies(results, n) ==
    IF n = 0 THEN << >>
    ELSE LET rest == SortFirstDroppingTies(results, n - 1)
         IN  IF \E k \in DOMAIN rest :
                    rest[k].matchPercentage = results[n].matchPercentage
             THEN rest
             ELSE InsertMatch(rest, results[n])

SortMatchesUnstable(results) == SortFirstUnstable(results, Len(results))

SortMatchesDroppingTies(results) == SortFirstDroppingTies(results, Len(results))

SortMatches(results) == SortFirst(results, Len(results))

-----------------------------------------------------------------------------
(* pages/Matcher.jsx: the page *)

Init ==
    /\ db \in Databases
    /\ canvas = << >>
    /\ capturedImage = << >>
    /\ isProcessing = FALSE
    /\ error = "null"
    /\ matchResults = << >>
    /\ validation = << >>
    /\ timers = 0
    /\ SimIdle
    /\ HashIdle
    /\ ImageIdle
    /\ StoreIdle
    /\ EnrollIdle

\* processAndMatch up to and including setTimeout.
processAndMatch ==
    /\ isProcessing' = TRUE
    /\ error' = "null"
    /\ matchResults' = << >>
    /\ validation' = << >>
    /\ timers' = timers + 1

\* The "Scan & Match" button: rendered while nothing is captured, disabled
\* while processing.  The video frame img is drawn on the canvas.
captureAndMatch(img) ==
    /\ capturedImage = << >>
    /\ ~isProcessing
    /\ canvas' = <<img>>
    /\ capturedImage' = <<img>>
    /\ processAndMatch
    /\ UNCHANGED db
    /\ UNCHANGED <<simVars, hashVars, imageVars, storeVars, enrollVars>>

processAndMatchTimeoutEarlyReturn ==
    /\ timers > 0
    /\ timers' = timers - 1
    /\ LET imageData == canvas[1]
           validationResult == imageData.validationResult
           queryFeatures == imageData.queryFeatures
           queryHash == imageData.queryHash
           cattle == getAllCattle
           lowConfidence ==
               IF validationResult.isValid THEN error ELSE "LowConfidence"
       IN  /\ validation' = <<validationResult>>
           /\ IF Len(cattle) = 0
              THEN /\ error' = lowConfidence
                   /\ matchResults' = <<[queryFeatures |-> queryFeatures,
                                         matches |-> << >>,
                                         validation |-> validationResult,
                                         queryHash |-> << >>]>>
              ELSE IF \E i \in DOMAIN cattle : cattle[i].featureVector = << >>
              THEN \* calculateSimilarity reads .length of undefined: the
                   \* TypeError is caught
                   /\ error' = "ProcessingError"
                   /\ matchResults' = matchResults
              ELSE /\ error' = lowConfidence
                   /\ matchResults' =
                        <<[queryFeatures |-> queryFeatures,
                           matches |->
                             SortMatches([i \in DOMAIN cattle |->
                                 ScoreCattle(validationResult, queryFeatures,
                                             queryHash, cattle[i])]),
                           validation |-> validationResult,
                           queryHash |-> <<queryHash>>]>>
           /\ isProcessing' = (IF Len(cattle) = 0 THEN isProcessing ELSE FALSE)
    /\ UNCHANGED <<db, canvas, capturedImage>>
    /\ UNCHANGED <<simVars, hashVars, imageVars, storeVars, enrollVars>>

\* The callback processAndMatch hands to setTimeout.  It reads the canvas
\* when it runs.
processAndMatchTimeout ==
    /\ timers > 0
    /\ timers' = timers - 1
    /\ LET imageData == canvas[1]
           validationResult == imageData.validationResult
           queryFeatures == imageData.queryFeatures
           queryHash == imageData.queryHash
           cattle == getAllCattle
           lowConfidence ==
               IF validationResult.isValid THEN error ELSE "LowConfidence"
       IN  /\ validation' = <<validationResult>>
           /\ IF Len(cattle) = 0
              THEN /\ error' = lowConfidence
                   /\ matchResults' = <<[queryFeatures |-> queryFeatures,
                                         matches |-> << >>,
                                         validation |-> validationResult,
                                         queryHash |-> << >>]>>
              ELSE IF \E i \in DOMAIN cattle : cattle[i].featureVector = << >>
              THEN \* calculateSimilarity reads .length of undefined: the
                   \* TypeError is caught
                   /\ error' = "ProcessingError"
                   /\ matchResults' = matchResults
              ELSE /\ error' = lowConfidence
                   /\ matchResults' =
                        <<[queryFeatures |-> queryFeatures,
                           matches |->
                             SortMatches([i \in DOMAIN cattle |->
                                 ScoreCattle(validationResult, queryFeatures,
                                             queryHash, cattle[i])]),
                           validation |-> validationResult,
                           queryHash |-> <<queryHash>>]>>
           /\ isProcessing' = FALSE
    /\ UNCHANGED <<db, canvas, capturedImage>>
    /\ UNCHANGED <<simVars, hashVars, imageVars, storeVars, enrollVars>>

\* The "Scan Another" button, rendered while an image is captured.
retakePhoto ==
    /\ capturedImage # << >>
    /\ capturedImage' = << >>
    /\ matchResults' = << >>
    /\ validation' = << >>
    /\ error' = "null"
    /\ UNCHANGED <<db, canvas, isProcessing, timers>>
    /\ UNCHANGED <<simVars, hashVars, imageVars, storeVars, enrollVars>>

Next ==
    \/ \E img \in Images : captureAndMatch(img)
    \/ processAndMatchTimeout
    \/ retakePhoto

Spec == Init /\ [][Next]_vars

-----------------------------------------------------------------------------
(* The Matcher page over a collection whose records carry fingerprints     *)
(* written by other means than this build's calculatePerceptualHash        *)
(* (db.json, importDatabase): they may have another length.                *)

StoredDatabases ==
    UNION {{[i \in 1..n |-> [id |-> i,
                             featureVector |-> <<f[i][1]>>,
                             perceptualHash |-> f[i][2],
                             bioVector |-> << >>]] :
               f \in [1..n -> FeatureVectors \X StoredPrints]} :
           n \in 1..MaxDb}

InitStored ==
    /\ db \in StoredDatabases
    /\ PageIdle
    /\ SimIdle
    /\ HashIdle
    /\ ImageIdle
    /\ StoreIdle
    /\ EnrollIdle

SpecStored == InitStored /\ [][Next]_vars

-----------------------------------------------------------------------------
(* The Matcher page with its timers run: a callback handed to setTimeout   *)
(* is run by the event loop once its delay has passed.                     *)

\* Collections of at most MaxLiveDb records: the empty one, the ones the
\* matching succeeds on, and the ones it throws on.
LiveDatabases == {d \in Databases : Len(d) <= MaxLiveDb}

InitLive ==
    /\ db \in LiveDatabases
    /\ PageIdle
    /\ SimIdle
    /\ HashIdle
    /\ ImageIdle
    /\ StoreIdle
    /\ EnrollIdle

\* A pending callback is run; processAndMatchTimeout is the only action
\* that does this.
TimerFires == timers > 0 /\ timers' = timers - 1

SpecLive == InitLive /\ [][Next]_vars /\ WF_timers(TimerFires)

-----------------------------------------------------------------------------
(* utils/database.js: the stored collection.  While STORAGE_KEY holds no    *)
(* item, db is << >>, which is what getAllCattle returns then.  A           *)
(* certificateId UFUGAJI-<year>-<serial> is held as its serial: the calls   *)
(* of one run fall in one year, and so on one registrationDate, which is    *)
(* left out of the records.                                                 *)

\* The record addCattle builds at time t for a collection of the given
\* length: the fields of cattleData, with id and certificateId set.
NewCattle(cattleData, length, t) ==
    [id |-> t, certificateId |-> length + 1] @@ cattleData

\* What addCattle writes and what it returns, at time t.
addCattle(cattleData, t) ==
    LET cattle == getAllCattle
        newCattle == NewCattle(cattleData, Len(cattle), t)
    IN  [stored |-> Append(cattle, newCattle), newCattle |-> newCattle]

\* What deleteCattle writes.
deleteCattle(id) == SelectSeq(getAllCattle, LAMBDA c : c.id # id)

\* Date.now() of a call made when the latest reading was now.
ClockReadings == {t \in now..(now + 1) : t >= 1 /\ t <= MaxClock}

-----------------------------------------------------------------------------
(* utils/database.js under the calls the application makes: initializeDB   *)
(* at load (main.jsx), addCattle from the Enroll page, deleteCattle from   *)
(* the registry (CattleList).                                               *)

CowNames == {"Baraka", "Zawadi"}

\* What db.json is fetched as: data.cattle.
SampleCattle == <<[id |-> 0, certificateId |-> 1, cowName |-> "Sample"]>>

\* The outcomes of the fetch: data.cattle, or [] when data has no cattle or
\* the fetch fails.
FetchOutcomes == {SampleCattle, << >>}

InitDb ==
    /\ PageIdle
    /\ SimIdle
    /\ HashIdle
    /\ ImageIdle
    /\ EnrollIdle
    /\ initPc = "start"
    /\ now = 0
    /\ \/ keySet = FALSE /\ db = << >>
       \/ keySet = TRUE /\ db \in {<< >>, SampleCattle}

\* initializeDB up to its await, or to its return when an item exists.
InitializeDBStart ==
    /\ initPc = "start"
    /\ initPc' = IF keySet THEN "done" ELSE "fetching"
    /\ UNCHANGED <<db, keySet, now>>
    /\ UNCHANGED <<pageVars, simVars, hashVars, imageVars, enrollVars>>

\* initializeDB from the end of its awaits: the fetched collection, or []
\* in the catch branch, is written.
InitializeDBResume(outcome) ==
    /\ initPc = "fetching"
    /\ db' = outcome
    /\ keySet' = TRUE
    /\ initPc' = "done"
    /\ UNCHANGED now
    /\ UNCHANGED <<pageVars, simVars, hashVars, imageVars, enrollVars>>

\* A call of addCattle; the pages are rendered once initializeDB has been
\* called.
CallAddCattle(cattleData, t) ==
    /\ initPc # "start"
    /\ Len(db) < MaxDb
    /\ db' = addCattle(cattleData, t).stored
    /\ keySet' = TRUE
    /\ now' = t
    /\ UNCHANGED initPc
    /\ UNCHANGED <<pageVars, simVars, hashVars, imageVars, enrollVars>>

\* handleDelete of the registry: deleteCattle on a record it lists.
CallDeleteCattle(id) ==
    /\ initPc # "start"
    /\ \E i \in DOMAIN db : db[i].id = id
    /\ db' = deleteCattle(id)
    /\ keySet' = TRUE
    /\ UNCHANGED <<initPc, now>>
    /\ UNCHANGED <<pageVars, simVars, hashVars, imageVars, enrollVars>>

NextDb ==
    \/ InitializeDBStart
    \/ \E outcome \in FetchOutcomes : InitializeDBResume(outcome)
    \/ \E name \in CowNames, t \in ClockReadings :
           CallAddCattle([cowName |-> name], t)
    \/ \E id \in 0..MaxClock : CallDeleteCattle(id)

SpecDb == InitDb /\ [][NextDb]_vars

-----------------------------------------------------------------------------
(* pages/MuzzleMapper.jsx and pages/Enroll.jsx: from a capture to a stored *)
(* record.  Both readings of the clock in handleSubmit (bioDataId, and id  *)
(* in addCattle) are taken in the same millisecond.  enrolledCattle, the   *)
(* list the page shows, is getAllCattle() after every handleSubmit and is  *)
(* not held in a variable.                                                 *)

\* The frames the Muzzle Mapper captures.
EnrollFrames ==
    {img \in Images :
        /\ img.queryHash = UniformHash(0)
        /\ img.validationResult.confidence = HighConfidence
        /\ img.queryFeatures[1] \in {0, MaxFeature}}

\* The feature vectors Math.random() fills on the sample path.
SampleVectors == {<<0, MaxFeature>>, <<MaxFeature, 0>>}

\* What useForEnrollment puts into sessionStorage for a processed frame.
PendingOf(img) ==
    [image |-> img,
     featureVector |-> img.queryFeatures,
     validation |-> img.validationResult,
     captureMode |-> "camera"]

\* pendingMuzzleData.perceptualHash: undefined (null here) when the stored
\* object has no such field.
PendingHash(pending) ==
    IF "perceptualHash" \in DOMAIN pending
    THEN <<pending.perceptualHash>> ELSE << >>

\* createBioDataVector; a score is the pair <<index, length of the list>>.
createBioDataVector(form) ==
    [breedId |-> form.breed,
     locationId |-> form.location,
     ageId |-> form.age,
     sexId |-> form.sex,
     colorId |-> form.color,
     vector |-> <<<<form.breed, BreedCount>>,
                  <<form.location, LocationCount>>,
                  <<form.age, AgeCount>>,
                  <<form.sex, SexCount>>,
                  <<form.color, ColorCount>>>>]

\* allCattle.find(...) of handleSubmit finds a record.
DuplicateFound(perceptualHash) ==
    \E i \in DOMAIN getAllCattle :
        /\ getAllCattle[i].perceptualHash # << >>
        /\ perceptualHash # << >>
        /\ hammingDistance(getAllCattle[i].perceptualHash, perceptualHash[1])
             <= EnrollThreshold

InitEnroll ==
    /\ db = << >>
    /\ PageIdle
    /\ SimIdle
    /\ HashIdle
    /\ ImageIdle
    /\ StoreIdle
    /\ EnrollIdle

\* MuzzleMapper: useForEnrollment on a processed frame, and the Enroll page
\* that window.location.href = '/enroll' loads.
useForEnrollment(img) ==
    /\ session' = <<PendingOf(img)>>
    /\ pendingMuzzleData' = <<PendingOf(img)>>
    /\ formData' = EmptyForm
    /\ useSample' = FALSE
    /\ isSubmitting' = FALSE
    /\ submitResult' = << >>
    /\ UNCHANGED <<db, storeVars>>
    /\ UNCHANGED <<pageVars, simVars, hashVars, imageVars>>

\* handleChange for the field name.
handleChange(name, value) ==
    /\ formData[name] # value
    /\ formData' = [formData EXCEPT ![name] = value]
    /\ UNCHANGED <<session, pendingMuzzleData, useSample, isSubmitting,
                   submitResult>>
    /\ UNCHANGED <<db, storeVars>>
    /\ UNCHANGED <<pageVars, simVars, hashVars, imageVars>>

\* The "Clear" button, rendered while a capture is pending.
clearPending ==
    /\ pendingMuzzleData # << >>
    /\ pendingMuzzleData' = << >>
    /\ session' = << >>
    /\ UNCHANGED <<formData, useSample, isSubmitting, submitResult>>
    /\ UNCHANGED <<db, storeVars>>
    /\ UNCHANGED <<pageVars, simVars, hashVars, imageVars>>

\* The sample-data checkbox, rendered while no capture is pending.
setUseSample(checked) ==
    /\ pendingMuzzleData = << >>
    /\ useSample # checked
    /\ useSample' = checked
    /\ UNCHANGED <<session, formData, pendingMuzzleData, isSubmitting,
                   submitResult>>
    /\ UNCHANGED <<db, storeVars>>
    /\ UNCHANGED <<pageVars, simVars, hashVars, imageVars>>

\* An exit of handleSubmit that rejects; submitting is what isSubmitting is
\* left as.
RejectedStillSubmitting(message, submitting) ==
    /\ submitResult' = <<[success |-> FALSE, message |-> message,
                          cattle |-> << >>]>>
    /\ isSubmitting' = TRUE
    /\ UNCHANGED <<session, formData, pendingMuzzleData, useSample>>
    /\ UNCHANGED <<db, storeVars>>

Rejected(message, submitting) ==
    /\ submitResult' = <<[success |-> FALSE, message |-> message,
                          cattle |-> << >>]>>
    /\ isSubmitting' = submitting
    /\ UNCHANGED <<session, formData, pendingMuzzleData, useSample>>
    /\ UNCHANGED <<db, storeVars>>

\* The end of handleSubmit from addCattle on, at time t.
Accepted(muzzleImage, featureVector, perceptualHash, t) ==
    LET added == addCattle([cowName |-> formData.cowName,
                            ownerName |-> formData.ownerName,
                            breed |-> formData.breed,
                            age |-> formData.age,
                            location |-> formData.location,
                            sex |-> formData.sex,
                            color |-> formData.color,
                            notes |-> formData.notes,
                            muzzleImage |-> muzzleImage,
                            featureVector |-> <<featureVector>>,
                            perceptualHash |-> perceptualHash,
                            bioData |-> createBioDataVector(formData),
                            bioDataId |-> t], t)
    IN  /\ db' = added.stored
        /\ keySet' = TRUE
        /\ now' = t
        /\ UNCHANGED initPc
        /\ session' = << >>
        /\ submitResult' = <<[success |-> TRUE, message |-> "Enrolled",
                              cattle |-> <<added.newCattle>>]>>
        /\ isSubmitting' = FALSE
        /\ formData' = EmptyForm
        /\ pendingMuzzleData' = << >>
        /\ useSample' = FALSE

\* The submit button, disabled while isSubmitting; sampleVector is what
\* Math.random() would fill.
handleSubmit(sampleVector) ==
    /\ ~isSubmitting
    /\ Len(db) < MaxEnrolled
    /\ IF formData.cowName = "" \/ formData.ownerName = ""
       THEN Rejected("NamesRequired", isSubmitting)
       ELSE IF formData.breed = 0
       THEN Rejected("SelectBreed", isSubmitting)
       ELSE IF formData.location = 0
       THEN Rejected("SelectLocation", isSubmitting)
       ELSE IF formData.sex = 0
       THEN Rejected("SelectSex", isSubmitting)
       ELSE IF pendingMuzzleData # << >>
       THEN LET pending == pendingMuzzleData[1]
                perceptualHash == PendingHash(pending)
            IN  IF DuplicateFound(perceptualHash)
                THEN Rejected("Duplicate", FALSE)
                ELSE \E t \in ClockReadings :
                         Accepted(<<pending.image>>, pending.featureVector,
                                  IF perceptualHash = << >> THEN << >>
                                  ELSE perceptualHash[1], t)
       ELSE IF useSample
       THEN \E t \in ClockReadings :
                Accepted(<< >>, sampleVector, << >>, t)
       ELSE Rejected("CaptureOrSample", FALSE)
    /\ UNCHANGED <<pageVars, simVars, hashVars, imageVars>>

\* The fields the form is filled through, and what is entered.
FormEntries ==
    ({"cowName"} \X {"", "Zawadi"})
        \cup ({"ownerName"} \X {"", "Akinyi"})
        \cup ({"breed", "location", "sex"} \X {0, 1})

NextEnroll ==
    \/ \E img \in EnrollFrames : useForEnrollment(img)
    \/ \E entry \in FormEntries : handleChange(entry[1], entry[2])
    \/ clearPending
    \/ \E checked \in BOOLEAN : setUseSample(checked)
    \/ \E sampleVector \in SampleVectors : handleSubmit(sampleVector)

SpecEnroll == InitEnroll /\ [][NextEnroll]_vars

-----------------------------------------------------------------------------
(* Properties of calculateSimilarity (checked under SpecSim) *)

Dot(a, b) == SumOver([i \in DOMAIN a |-> a[i] * b[i]], DOMAIN a)

IsZeroVector(a) == \A i \in DOMAIN a : a[i] = 0

SimReturned == simOut # << >>

\* s is 100 * cos(a, b) in tenths of a percent, rounded down:
\* s / 1000 <= dot / sqrt(na * nb) < (s + 1) / 1000.
IsCosinePercent(s, a, b) ==
    LET d == 1000 * Dot(a, b)
        n == Dot(a, a) * Dot(b, b)
    IN  /\ s \in 0..1000
        /\ s * s * n <= d * d
        /\ (s + 1) * (s + 1) * n > d * d

\* 100 / (1 + euclideanDistance(a, b)) in tenths of a percent, rounded
\* down.  With D the sum of the squared component differences, the
\* distance is sqrt(D) / MaxComp.
InverseEuclidean(a, b) ==
    LET D == SumOver([i \in DOMAIN a |-> (a[i] - b[i]) * (a[i] - b[i])],
                     DOMAIN a)
    IN  CHOOSE k \in 0..1000 :
          /\ k * k * D <= (1000 - k) * (1000 - k) * MaxComp * MaxComp
          /\ \/ k = 1000
             \/ (k + 1) * (k + 1) * D
                  > (999 - k) * (999 - k) * MaxComp * MaxComp

\* 0.7 * cosine + 0.3 * inverse Euclidean, in tenths of a percent.
BlendedSimilarity(a, b) ==
    LET c == CHOOSE s \in 0..1000 : IsCosinePercent(s, a, b)
    IN  (7 * c + 3 * InverseEuclidean(a, b)) \div 10

ComparablePair ==
    /\ Len(vector1) = Len(vector2)
    /\ ~IsZeroVector(vector1)
    /\ ~IsZeroVector(vector2)

\* C4 as stated: for equal-length vectors with non-zero norms the raw
\* similarity is 0.7 x cosine (scaled to 0..100) + 0.3 x 100 / (1 +
\* Euclidean distance).
C4_BlendedSimilarity ==
    (SimReturned /\ ComparablePair)
        => simOut[1] = BlendedSimilarity(vector1, vector2)

\* C4 amended: for equal-length vectors with non-zero norms the raw
\* similarity is the cosine similarity alone, scaled to 0..100; no
\* Euclidean term enters it.
C4_CosineOnly ==
    (SimReturned /\ ComparablePair)
        => IsCosinePercent(simOut[1], vector1, vector2)

C4_Witness ==
    /\ SimReturned
    /\ ComparablePair
    /\ vector1 # vector2
    /\ simOut[1] > 0
    /\ simOut[1] < 1000
    /\ simOut[1] # BlendedSimilarity(vector1, vector2)

\* C5 as stated: calculateSimilarity(A, A) is 100 for every vector A, the
\* all-zero vector included.
C5_SelfSimilarityAlways ==
    (SimReturned /\ vector1 = vector2) => simOut[1] = 1000

\* C5 amended: calculateSimilarity(A, A) is 100 for every vector A with a
\* non-zero component, and 0 for a vector without one (all-zero or empty).
C5_SelfSimilarity ==
    (SimReturned /\ vector1 = vector2)
        => simOut[1] = (IF IsZeroVector(vector1) THEN 0 ELSE 1000)

C5_Witness ==
    /\ SimReturned
    /\ vector1 = vector2
    /\ Len(vector1) = MaxLen
    /\ \E i, j \in DOMAIN vector1 : vector1[i] # vector1[j] /\ vector1[i] # 0
    /\ simOut = <<1000>>

\* C6: calculateSimilarity(A, B) = calculateSimilarity(B, A) for all
\* equal-length vectors A and B.
C6_Symmetric ==
    (SimReturned /\ Len(vector1) = Len(vector2))
        => simOut[1] = calculateSimilarity(vector2, vector1)

C6_Witness ==
    /\ SimReturned
    /\ ComparablePair
    /\ Dot(vector1, vector1) # Dot(vector2, vector2)
    /\ simOut[1] > 0
    /\ simOut[1] < 1000

\* C7: calculateSimilarity returns 0 whenever one of the vectors is
\* all-zero or the two lengths differ.
C7_ZeroOnDegenerate ==
    (SimReturned /\ (\/ IsZeroVector(vector1)
                     \/ IsZeroVector(vector2)
                     \/ Len(vector1) # Len(vector2)))
        => simOut = <<0>>

C7_Witness ==
    /\ SimReturned
    /\ IsZeroVector(vector1)
    /\ vector1 = vector2
    /\ Len(vector1) = MaxLen
    /\ simOut = <<0>>

-----------------------------------------------------------------------------
(* Properties of the ranking (checked under Spec) *)

Published == matchResults # << >>

Matches == matchResults[1].matches

\* The enrolled record a match result was computed from.
EnrolledAs(m) == db[CHOOSE k \in DOMAIN db : db[k].id = m.id]

\* Position of a record in the collection getAllCattle returns.
EnrollmentIndex(id) == CHOOSE k \in DOMAIN db : db[k].id = id

QueryConfidence == matchResults[1].validation.confidence

\* The fingerprint of the query of a published non-empty ranking.
PublishedQueryHash == matchResults[1].queryHash[1]

DiffersEverywhere(h1, h2) ==
    /\ Len(h1) = Len(h2)
    /\ Len(h1) > 0
    /\ \A i \in DOMAIN h1 : h1[i] # h2[i]

\* Number of positions where two equal-length hashes differ.
Differing(h1, h2) == Cardinality({i \in DOMAIN h1 : h1[i] # h2[i]})

\* The bio-data score of a record: the mean of its vector, as tenths of a
\* percent.
AuxiliaryMatchScore(bioVector) ==
    (SumOver(bioVector, DOMAIN bioVector) * 1000) \div (BioLen * BioDen)

\* C1: a published ranking is ordered by non-increasing matchPercentage,
\* and candidates with equal matchPercentage keep the relative order they
\* have in the enrolled collection.
C1_SortedStable ==
    Published =>
        \A i, j \in DOMAIN Matches :
            i < j =>
                /\ Matches[i].matchPercentage >= Matches[j].matchPercentage
                /\ Matches[i].matchPercentage = Matches[j].matchPercentage
                     => EnrollmentIndex(Matches[i].id)
                          < EnrollmentIndex(Matches[j].id)

C1_Witness ==
    /\ Published
    /\ Len(Matches) = MaxDb
    /\ EnrollmentIndex(Matches[1].id) = MaxDb
    /\ Matches[1].matchPercentage > Matches[MaxDb].matchPercentage

\* C2: the combined percentage follows the first applicable rule:
\* (1) both fingerprints present and within the duplicate threshold ->
\* exact duplicate, 99.9; (2) else the candidate has a bio-data vector ->
\* 0.75 raw + 0.25 auxiliary, unboosted; (3) else confidence >= 0.60 ->
\* min(100, 1.05 raw); (4) else the raw similarity.
C2_RulePrecedence ==
    Published =>
        \A k \in DOMAIN Matches :
            LET m == Matches[k]
                c == EnrolledAs(m)
                withinThreshold ==
                    /\ c.perceptualHash # << >>
                    /\ hammingDistance(PublishedQueryHash, c.perceptualHash)
                         <= DuplicateThreshold
                raw == m.rawPercentage
            IN  /\ m.isExactDuplicate = withinThreshold
                /\ m.matchPercentage =
                     (IF withinThreshold THEN 999
                      ELSE IF c.bioVector # << >>
                           THEN (75 * raw
                                 + 25 * AuxiliaryMatchScore(c.bioVector))
                                \div 100
                      ELSE IF QueryConfidence >= 60
                           THEN Min(1000, (105 * raw) \div 100)
                      ELSE raw)

C2_Witness ==
    /\ Published
    /\ Len(Matches) = MaxDb
    /\ QueryConfidence >= 60
    /\ \E k \in DOMAIN Matches :
          /\ Matches[k].isExactDuplicate
          /\ Matches[k].bioVector # << >>
          /\ Matches[k].rawPercentage = 0
          /\ Matches[k].matchPercentage = 999
    /\ \E k \in DOMAIN Matches :
          /\ ~Matches[k].isExactDuplicate
          /\ Matches[k].bioVector # << >>
          /\ Matches[k].rawPercentage = 1000
          /\ Matches[k].matchPercentage < 1000

\* C3: a candidate is an exact duplicate only when its fingerprint is
\* within the duplicate threshold of the query's, and two equal-length
\* fingerprints that differ in every position are never declared the same
\* photo.
C3_OnlyNearIdenticalAreDuplicates ==
    Published =>
        \A k \in DOMAIN Matches :
            LET m == Matches[k]
            IN  /\ m.isExactDuplicate
                     => /\ m.perceptualHash # << >>
                        /\ hammingDistance(PublishedQueryHash,
                                           m.perceptualHash)
                             <= DuplicateThreshold
                /\ DiffersEverywhere(PublishedQueryHash, m.perceptualHash)
                     => ~m.isExactDuplicate

\* C8: with an empty collection the run publishes an empty ranking, leaves
\* isProcessing false and reports no processing error.
C8_EmptyCollection ==
    [][(processAndMatchTimeout /\ db = << >>)
         => /\ matchResults' # << >>
            /\ matchResults'[1].matches = << >>
            /\ isProcessing' = FALSE
            /\ error' # "ProcessingError"]_vars

C8_Witness ==
    /\ db = << >>
    /\ Published
    /\ Matches = << >>
    /\ ~isProcessing
    /\ error = "LowConfidence"
    /\ timers = 0

\* C9: every published matchPercentage, rawPercentage and duplicateScore
\* lies in [0,100].
C9_PercentagesInRange ==
    Published =>
        \A k \in DOMAIN Matches :
            /\ Matches[k].matchPercentage \in 0..1000
            /\ Matches[k].rawPercentage \in 0..1000
            /\ Matches[k].duplicateScore \in 0..1000

C9_Witness ==
    /\ Published
    /\ QueryConfidence >= 60
    /\ \E k \in DOMAIN Matches :
          /\ ~Matches[k].isExactDuplicate
          /\ Matches[k].bioVector = << >>
          /\ Matches[k].rawPercentage = 1000
          /\ Matches[k].matchPercentage = 1000
    /\ \E k \in DOMAIN Matches :
          /\ Matches[k].isExactDuplicate
          /\ Matches[k].duplicateScore < 1000

\* What a match result carries over from its record.
RecordOf(m) ==
    [id |-> m.id,
     featureVector |-> m.featureVector,
     perceptualHash |-> m.perceptualHash,
     bioVector |-> m.bioVector]

ScoresOf(m) ==
    <<m.matchPercentage, m.rawPercentage, m.bioDataMatch,
      m.isExactDuplicate, m.duplicateScore>>

SameData(c1, c2) ==
    /\ c1.featureVector = c2.featureVector
    /\ c1.perceptualHash = c2.perceptualHash
    /\ c1.bioVector = c2.bioVector

OneResultPerRecord ==
    Published /\ db # << >> =>
        /\ Len(Matches) = Len(db)
        /\ \A i \in DOMAIN db :
              \E k \in DOMAIN Matches :
                  /\ RecordOf(Matches[k]) = db[i]
                  /\ \A l \in DOMAIN Matches :
                        Matches[l].id = db[i].id => l = k
        /\ \A k, l \in DOMAIN Matches :
              SameData(Matches[k], Matches[l])
                  => ScoresOf(Matches[k]) = ScoresOf(Matches[l])

\* C10: a run publishes exactly one result per enrolled record (a
\* permutation of the collection), records with the same data get the same
\* scores whatever else is enrolled, and the run leaves the stored
\* collection as it was.
C10_OneResultPerRecord ==
    /\ []OneResultPerRecord
    /\ [][processAndMatchTimeout => db' = db]_vars

C10_Witness ==
    /\ Published
    /\ Len(Matches) = MaxDb
    /\ Matches[1].id # db[1].id
    /\ \A k \in DOMAIN Matches : Matches[k].bioVector # << >>
    /\ \E k \in DOMAIN Matches : Matches[k].isExactDuplicate
    /\ \E k \in DOMAIN Matches : ~Matches[k].isExactDuplicate

-----------------------------------------------------------------------------
(* Atomicity of a run (checked under Spec) *)

\* C20: a run has no partial outcome: the callback either publishes both
\* validation and matchResults, or it fails and publishes neither of them.
C20_NoPartialResults ==
    [][processAndMatchTimeout =>
          IF error' = "ProcessingError"
          THEN validation' = << >> /\ matchResults' = << >>
          ELSE validation' # << >> /\ matchResults' # << >>]_vars

-----------------------------------------------------------------------------
(* Properties of the fingerprints (checked under SpecHash) *)

Compared == compared # << >>

Distance == compared[1].distance

\* Both fingerprints were returned by calculatePerceptualHash.
BothComputed == photo1 # << >> /\ photo2 # << >>

\* The bits a fingerprint stands for: four per hexadecimal digit.
BitsOf(hexHash) ==
    [k \in 1..(4 * Len(hexHash)) |->
        LET digit == hexHash[(k - 1) \div 4 + 1]
            place == 3 - ((k - 1) % 4)
        IN  (digit \div (2 ^ place)) % 2]

\* C14: hammingDistance gives the same value in both argument orders, and
\* gives 0 exactly for two bit-identical fingerprints; the two fingerprints
\* of one image are at distance 0.
C14_SymmetricZeroIffIdentical ==
    Compared =>
        /\ Distance = hammingDistance(print2[1], print1[1])
        /\ Distance = 0 <=> BitsOf(print1[1]) = BitsOf(print2[1])
        /\ (BothComputed /\ photo1 = photo2) => Distance = 0

C14_Witness ==
    /\ Compared
    /\ BothComputed
    /\ photo1 # photo2
    /\ Distance > 0
    /\ Distance < HexDigits


\* The number of positions at which two bit strings of one length differ.
DifferingBits(bits1, bits2) ==
    Cardinality({k \in DOMAIN bits1 : bits1[k] # bits2[k]})

\* C15: for two fingerprints returned by calculatePerceptualHash,
\* hammingDistance is the number of bit positions in which they differ.
C15_CountsDifferingBits ==
    (Compared /\ BothComputed) =>
        Distance = DifferingBits(BitsOf(print1[1]), BitsOf(print2[1]))

\* C16: the fingerprint length is one constant of the system: every
\* returned fingerprint has it, the length-mismatch value and the divisors
\* of the two similarity scores are that length, the duplicate threshold
\* lies within it, and two fingerprints that differ in every bit are at
\* that distance with both similarity scores 0.
C16_OneFingerprintLength ==
    /\ (photo1 # << >> /\ print1 # << >>) => 4 * Len(print1[1]) = HashBits
    /\ (photo2 # << >> /\ print2 # << >>) => 4 * Len(print2[1]) = HashBits
    /\ Compared =>
          /\ LengthMismatch = HashBits
          /\ SimilarityDivisor = HashBits
          /\ HashDivisor = HashBits
          /\ DuplicateThreshold <= HashBits
    /\ (/\ Compared
        /\ BothComputed
        /\ DifferingBits(BitsOf(print1[1]), BitsOf(print2[1])) = HashBits)
       => /\ Distance = HashBits
          /\ compared[1].similarity = 0
          /\ (1000 * (HashDivisor - Distance)) \div HashDivisor = 0

\* The bit of every cell of the grid, row by row: 1 exactly when the cell
\* exceeds the mean of the grid.
GridBits(imageData) ==
    LET gridSum == GridSum(imageData, GridSize)
    IN  [k \in 1..(GridSize * GridSize) |->
            IF AboveAverage(imageData, (k - 1) % GridSize,
                            (k - 1) \div GridSize, gridSum)
            THEN 1 ELSE 0]

\* C17: the fingerprint of an image carries one bit for every cell of the
\* size x size grid the image is downsampled to.
C17_OneBitPerGridCell ==
    (photo1 # << >> /\ print1 # << >>) =>
        BitsOf(print1[1]) = GridBits(photo1[1])

-----------------------------------------------------------------------------
(* Properties of the image functions (checked under SpecImage) *)

Returned(fn) == returned # << >> /\ returned[1].fn = fn

\* C11: extractFeatureVector returns exactly 28 values, every one of them
\* a number in [0,1], for an image of positive width and height.
C11_TwentyEightInRange ==
    Returned("extractFeatureVector") =>
        /\ Len(returned[1].value) = 28
        /\ \A k \in DOMAIN returned[1].value :
              returned[1].value[k] \in 0..Unit

\* The luminance standard deviation of the image is below one gray level.
InsufficientDetail(imageData) ==
    VarianceNum(imageData) < VarianceDen(imageData)

\* C12: isValid is true exactly when the score is at or above the
\* threshold, neither the face nor the object heuristic triggered and the
\* luminance standard deviation is not below the floor.
C12_ValidIffAllThree ==
    Returned("validateMuzzleImage") =>
        (returned[1].value.isValid
            <=> /\ returned[1].value.confidence >= ValidThreshold
                /\ ~returned[1].value.flags.isProbablyFace
                /\ ~returned[1].value.flags.isProbablyObject
                /\ ~InsufficientDetail(frame))

IsUniform(imageData) ==
    \A i, j \in DOMAIN imageData.data : imageData.data[i] = imageData.data[j]

\* C13: for a uniform image validateMuzzleImage reports texture score 0,
\* edge score 0 and isValid = false.
C13_UniformImageRejected ==
    (Returned("validateMuzzleImage") /\ IsUniform(frame)) =>
        /\ returned[1].value.scores.texture = 0
        /\ returned[1].value.scores.edge = 0
        /\ ~returned[1].value.isValid

\* C19: the page equalizes with clip limit 2.0 on an 8 x 8 tile grid: what
\* it hands to feature extraction is the blurred gray image equalized with
\* these two values.
C19_ClipTwoEightByEight ==
    Returned("preprocess") =>
        /\ returned[1].value.clipLimit = 2
        /\ returned[1].value.tileSize = 8
        /\ returned[1].value.processed =
              applyCLAHE(applyGaussianBlur(toGrayscale(frame)), 2, 8)


\* The tiles of the call that returned, as sets of pixels.
ReturnedTiles ==
    {TilePixels(frame, returned[1].tileSize, tx, ty) :
        tx \in 0..(returned[1].tileSize - 1),
        ty \in 0..(returned[1].tileSize - 1)}

\* floor(clipLimit x tilePixelCount / 256) of a tile of the call.
ClipCount(tile) == (returned[1].clipLimit * Cardinality(tile)) \div 256

\* The number of pixels of the tile whose luminance is v in the image.
CountIn(imageData, tile, v) ==
    Cardinality({i \in tile : imageData.data[i] = v})

\* C18 as stated: in every tile no output luminance occurs more often than
\* the clip limit count.
C18_OutputHistogramClipped ==
    Returned("applyCLAHE") =>
        \A tile \in ReturnedTiles :
            \A i \in tile :
                CountIn(returned[1].value, tile, returned[1].value.data[i])
                    <= ClipCount(tile)

\* Two input luminances of the tile with none of the tile between them.
Consecutive(tile, i, j) ==
    /\ frame.data[i] < frame.data[j]
    /\ \A k \in tile : ~(/\ frame.data[i] < frame.data[k]
                         /\ frame.data[k] < frame.data[j])

\* The lowest bin of the tile after clipping: cdfMin.
LowestClipped(tile) ==
    LET lowest == CHOOSE i \in tile : \A k \in tile : frame.data[i] <= frame.data[k]
    IN  Min(CountIn(frame, tile, frame.data[lowest]), ClipCount(tile))

\* C18: in every tile the bins enter the CDF clipped to the clip limit
\* count: equal input luminances get equal output luminances, and from
\* one input luminance of the tile to the next the output rises by at most
\* ceil(255 x clip count / (tilePixelCount - cdfMin)).
C18_ClippedContrastGain ==
    Returned("applyCLAHE") =>
        \A tile \in ReturnedTiles :
            \A i, j \in tile :
                /\ frame.data[i] = frame.data[j]
                      => returned[1].value.data[i] = returned[1].value.data[j]
                /\ Consecutive(tile, i, j)
                      => LET rest == Cardinality(tile) - LowestClipped(tile)
                             rise == returned[1].value.data[j]
                                       - returned[1].value.data[i]
                         IN  /\ rise >= 0
                             /\ rise * rest < 255 * ClipCount(tile) + rest

C18_Witness ==
    /\ Returned("applyCLAHE")
    /\ \E tile \in ReturnedTiles :
          /\ \E i \in tile :
                CountIn(frame, tile, frame.data[i]) > ClipCount(tile)
          /\ ClipCount(tile) > 0
          /\ \E i, j \in tile :
                /\ Consecutive(tile, i, j)
                /\ returned[1].value.data[i] < returned[1].value.data[j]

-----------------------------------------------------------------------------
(* Properties of the stored collection (checked under SpecDb) *)

\* C21: after any sequence of addCattle and deleteCattle operations starting
\* from a database whose certificate IDs are distinct, no two records of
\* the database have the same certificateId.
C21_DistinctCertificateIds ==
    \A i, j \in DOMAIN db :
        i # j => db[i].certificateId # db[j].certificateId

\* C28: initializeDB never loses enrolled data: when it completes, every
\* record that was in storage is still there, and it writes a collection
\* only when storage holds none at the moment of the write.
C28_InitializeKeepsEnrolled ==
    [][(initPc = "fetching" /\ initPc' = "done")
           => /\ \A i \in DOMAIN db : \E j \in DOMAIN db' : db'[j] = db[i]
              /\ ~keySet]_vars

-----------------------------------------------------------------------------
(* Properties of the tiling (checked under SpecImage) *)

\* The tiles of the returned call that hold pixel i, as <<tx, ty>>.
TilesHolding(i) ==
    {t \in (0..(returned[1].tileSize - 1)) \X (0..(returned[1].tileSize - 1)) :
        i \in TilePixels(frame, returned[1].tileSize, t[1], t[2])}

\* C22: applyCLAHE partitions the whole image into the N x N tiles: every
\* pixel belongs to exactly one tile, its output luminance is remapped from
\* that tile's clipped CDF and its output alpha is the input's alpha, also
\* when the width or height is not a multiple of N.
C22_EveryPixelInOneTile ==
    Returned("applyCLAHE") =>
        \A i \in 1..PixelCount(frame) :
            /\ Cardinality(TilesHolding(i)) = 1
            /\ \A t \in TilesHolding(i) :
                   returned[1].value.data[i]
                       = Equalized(frame, returned[1].clipLimit,
                                   returned[1].tileSize, t[1], t[2], i)
            /\ CLAHEAlpha(frame, returned[1].tileSize, i) = 255

-----------------------------------------------------------------------------
(* Properties of the artificial-object heuristic (checked under SpecImage) *)

\* For the first n adjacent pairs of a line: the length of the run of
\* near-identical pairs that ends at pair n, and of the longest run.
RECURSIVE RunLengths(_, _)
RunLengths(line, n) ==
    IF n = 0 THEN <<0, 0>>
    ELSE LET before == RunLengths(line, n - 1)
             current == IF Abs(line[n] - line[n + 1]) < 5
                        THEN before[1] + 1 ELSE 0
         IN  <<current, Max(before[2], current)>>

\* The line contains a run longer than 80% of its length, wherever it sits.
HasLongRun(line) == 10 * RunLengths(line, Len(line) - 1)[2] > 8 * Len(line)

\* The rows and the columns of the image that contain such a run.
LongRunRows(imageData) ==
    {y \in 0..(imageData.height - 1) :
        HasLongRun([x \in 1..imageData.width |-> Gray(imageData, x - 1, y)])}

LongRunColumns(imageData) ==
    {x \in 0..(imageData.width - 1) :
        HasLongRun([y \in 1..imageData.height |-> Gray(imageData, x, y - 1)])}

\* C23: every row and every column that contains a run of near-identical
\* adjacent pixels longer than 80% of its length counts as a straight line,
\* also when the run reaches the last pixel or spans the whole line, and
\* the image is flagged artificial when more than 10 are counted.
C23_EveryLongRunCounted ==
    Returned("validateMuzzleImage") =>
        (returned[1].value.flags.isProbablyObject
            <=> Cardinality(LongRunRows(frame))
                  + Cardinality(LongRunColumns(frame)) > 10)

-----------------------------------------------------------------------------
(* Properties of the duplicate rule on stored fingerprints (checked under  *)
(* SpecStored)                                                             *)

\* C24: a candidate whose stored fingerprint has another length than the
\* query's fingerprint is not marked an exact duplicate.
C24_UnequalLengthNeverDuplicate ==
    Published =>
        \A k \in DOMAIN Matches :
            Len(Matches[k].perceptualHash) # Len(PublishedQueryHash)
                => ~Matches[k].isExactDuplicate

-----------------------------------------------------------------------------
(* Properties of the ranking of exact duplicates (checked under Spec) *)

\* C25: in a published ranking every candidate marked isExactDuplicate is
\* placed before every candidate that is not, for any query confidence and
\* any raw similarities.
C25_DuplicatesRankedFirst ==
    Published =>
        \A k, l \in DOMAIN Matches :
            (Matches[k].isExactDuplicate /\ ~Matches[l].isExactDuplicate)
                => k < l

-----------------------------------------------------------------------------
(* Properties of the page under interleavings (checked under Spec) *)

\* C27: under every interleaving of capture, the delayed timer and
\* retakePhoto, matchResults and validation are non-null only while
\* capturedImage is non-null: a timer started before retakePhoto publishes
\* nothing after it.
C27_ResultsOnlyWhileCaptured ==
    (matchResults # << >> \/ validation # << >>) => capturedImage # << >>

-----------------------------------------------------------------------------
(* Termination of a run (checked under SpecLive) *)

\* C30: every processAndMatch eventually sets isProcessing back to false:
\* the run of its timer does so on each of its exits (empty collection,
\* successful matching, exception in a processing step).
C30_ProcessingEnds ==
    /\ isProcessing ~> ~isProcessing
    /\ [][processAndMatchTimeout => isProcessing' = FALSE]_vars

\* A run that ended in the catch branch.
C30_Witness ==
    /\ error = "ProcessingError"
    /\ validation # << >>
    /\ ~isProcessing
    /\ timers = 0

-----------------------------------------------------------------------------
(* Properties of the enrollment (checked under SpecEnroll) *)

\* C26: a capture enrolled through 'use for enrollment' and the Enroll form
\* is rejected as a duplicate when it is submitted a second time through
\* the same flow: no second record of the same capture is stored.
C26_SameCaptureStoredOnce ==
    \A i, j \in DOMAIN db :
        (i # j /\ db[i].muzzleImage # << >>)
            => db[i].muzzleImage # db[j].muzzleImage

\* A step of handleSubmit.
HandleSubmitStep == \E sampleVector \in SampleVectors : handleSubmit(sampleVector)

\* The submission is one that handleSubmit is to reject.
ToBeRejected ==
    \/ formData.cowName = ""
    \/ formData.ownerName = ""
    \/ formData.breed = 0
    \/ formData.location = 0
    \/ formData.sex = 0
    \/ pendingMuzzleData = << >> /\ ~useSample
    \/ /\ pendingMuzzleData # << >>
       /\ DuplicateFound(PendingHash(pendingMuzzleData[1]))

=============================================================================
